---------------------------- MODULE Spec2Model ----------------------------
(***************************************************************************)
(* Model of the HPA experiment analysis scripts                            *)
(*   src/krm-experiment/analysis/analysis.py   (variant "krm")             *)
(*   src/pcm-exp/analysis/analysis.py          (variant "pcm")             *)
(* and of the request counter of the benchmark server                     *)
(*   src/pcm-exp/app/server.py                                             *)
(*                                                                         *)
(* main() loads the runs, computes compute_derived_metrics(run_data) for   *)
(* each run in dictionary order and writes the summary table.              *)
(*                                                                         *)
(* Data representation                                                     *)
(*   - a DataFrame is the sequence of its rows in file order; it is        *)
(*     `.empty` exactly when the sequence is empty;                        *)
(*   - a timestamp is an integer number of seconds;                        *)
(*   - a cell that pandas holds as a float is Num(v) or NaN;               *)
(*   - a metrics dict is a function from the keys present to values;       *)
(*     rounded values are kept as scaled integers: round(x, 1) in tenths,  *)
(*     round(x, 2) in hundredths.                                          *)
(***************************************************************************)
EXTENDS Integers, Sequences, FiniteSets, TLC

VARIABLES
    variant,        \* which analysis.py runs: "krm" or "pcm"
    data,           \* load_all_runs(): the runs, in dictionary order
    summary,        \* main(): summary[label] = metrics, in insertion order
    pc,             \* position in main()
    summary_table   \* the rows written to summary_table.csv, <<>> if none

\* src/pcm-exp/app/server.py
VARIABLES
    REQUESTS_TOTAL, \* the global counter
    REQUESTS_LOCK,  \* the handler holding the lock, NoHolder if none
    handler,        \* per handler thread: position, request path, local value
    accepted,       \* number of requests dispatched so far
    completed,      \* number of increment_requests() calls that have returned
    reads           \* the get_requests_total() results, in the order of the reads

analysisVars == <<variant, data, summary, pc, summary_table>>
serverVars == <<REQUESTS_TOTAL, REQUESTS_LOCK, handler, accepted, completed, reads>>
vars == <<analysisVars, serverVars>>

---------------------------------------------------------------------------
(* Values *)

Num(v) == [kind |-> "num", val |-> v]
NaN == [kind |-> "nan", val |-> 0]
None == [kind |-> "none", val |-> 0]

IsNum(x) == x.kind = "num"

EmptyDict == [k \in {} |-> None]

Has(m, k) == k \in DOMAIN m

Abs(x) == IF x < 0 THEN -x ELSE x

RECURSIVE SeqSum(_)
SeqSum(s) == IF s = <<>> THEN 0 ELSE Head(s) + SeqSum(Tail(s))

RECURSIVE SeqMax(_)
SeqMax(s) == IF Len(s) = 1 THEN s[1]
             ELSE LET m == SeqMax(Tail(s)) IN IF s[1] > m THEN s[1] ELSE m

Column(df, c) == [i \in 1..Len(df) |-> df[i][c]]

\* pd.to_numeric(col, errors="coerce").dropna(): the numeric values, in order
RECURSIVE DropNa(_)
DropNa(col) ==
    IF col = <<>> THEN <<>>
    ELSE IF IsNum(Head(col)) THEN <<Head(col).val>> \o DropNa(Tail(col))
    ELSE DropNa(Tail(col))

---------------------------------------------------------------------------
(* Configuration constants of the scripts *)

TARGET_UTIL == 60
PlateauSeconds == 60
SampleIntervalSeconds == 5

---------------------------------------------------------------------------
(* compute_derived_metrics: time-to-scale-up *)

\* phases[(phases["phase"] == "high") & (phases["action"] == "start")]
HighStarts(phases) ==
    SelectSeq(phases, LAMBDA p : p.phase = "high" /\ p.action = "start")

\* hpa[(hpa["timestamp"] > first_high) & (hpa["currentReplicas"] > initial)]
Scaled(hpa, first_high, initial_replicas) ==
    SelectSeq(hpa, LAMBDA s : s.timestamp > first_high
                              /\ s.currentReplicas > initial_replicas)

TimeToScaleUp(hpa, phases) ==
    LET high_starts == HighStarts(phases) IN
    IF high_starts # <<>> /\ hpa # <<>>
    THEN LET first_high == high_starts[1].timestamp
             initial_replicas == hpa[1].currentReplicas
             scaled == Scaled(hpa, first_high, initial_replicas)
         IN IF scaled # <<>>
            THEN "time_to_scale_up_s" :> Num(scaled[1].timestamp - first_high)
            ELSE EmptyDict
    ELSE EmptyDict

---------------------------------------------------------------------------
(* compute_derived_metrics: time-to-stabilize *)

\* A mutation of StabilizeStep: a differing sample does not reset stable_start.
StabilizeStepNoReset(hpa, i, stable_start) ==
    IF hpa[i].currentReplicas = hpa[i - 1].currentReplicas
    THEN LET start == IF stable_start = <<>> THEN hpa[i - 1].timestamp
                      ELSE stable_start[1]
             elapsed == hpa[i].timestamp - start
         IN [stable_start |-> <<start>>, accepted |-> elapsed >= PlateauSeconds]
    ELSE [stable_start |-> stable_start, accepted |-> FALSE]

\* A mutation of StabilizeStep: the pair that starts a plateau only records
\* stable_start; elapsed is evaluated from the next equal sample on.
StabilizeStepNextPair(hpa, i, stable_start) ==
    IF hpa[i].currentReplicas = hpa[i - 1].currentReplicas
    THEN IF stable_start = <<>>
         THEN [stable_start |-> <<hpa[i - 1].timestamp>>, accepted |-> FALSE]
         ELSE [stable_start |-> stable_start,
               accepted |-> hpa[i].timestamp - stable_start[1] >= PlateauSeconds]
    ELSE [stable_start |-> <<>>, accepted |-> FALSE]

\* One iteration of `for i in range(1, len(hpa))` (i is 1-based here, so the
\* loop runs i = 2..Len(hpa)).  stable_start is <<>> for None, <<t>> otherwise.
StabilizeStep(hpa, i, stable_start) ==
    IF hpa[i].currentReplicas = hpa[i - 1].currentReplicas
    THEN LET start == IF stable_start = <<>> THEN hpa[i - 1].timestamp
                      ELSE stable_start[1]
             elapsed == hpa[i].timestamp - start
         IN [stable_start |-> <<start>>, accepted |-> elapsed >= PlateauSeconds]
    ELSE [stable_start |-> <<>>, accepted |-> FALSE]

\* The loop from iteration i on; <<>> when it ends without `break`, else
\* <<stable_start>> at the `break`.
RECURSIVE StabilizeLoop(_, _, _)
StabilizeLoop(hpa, i, stable_start) ==
    IF i > Len(hpa) THEN <<>>
    ELSE LET st == StabilizeStep(hpa, i, stable_start) IN
         IF st.accepted THEN st.stable_start
         ELSE StabilizeLoop(hpa, i + 1, st.stable_start)

\* stabilized_start_time: <<>> for None
StabilizedStartTime(hpa) ==
    IF Len(hpa) > 1 THEN StabilizeLoop(hpa, 2, <<>>) ELSE <<>>

\* first_high used inside the loop: the first high/start row, else hpa.iloc[0]
StabilizeAnchor(hpa, phases) ==
    LET high_starts == HighStarts(phases) IN
    IF high_starts # <<>> THEN high_starts[1].timestamp ELSE hpa[1].timestamp

\* A mutation of TimeToStabilize: without a high/start event there is no
\* anchor and the metric is omitted.
TimeToStabilizeNeedsHighStart(hpa, phases) ==
    LET stable_start == StabilizedStartTime(hpa) IN
    IF stable_start # <<>> /\ HighStarts(phases) # <<>>
    THEN "time_to_stabilize_s" :> Num(stable_start[1] - HighStarts(phases)[1].timestamp)
    ELSE EmptyDict

TimeToStabilize(hpa, phases) ==
    LET stable_start == StabilizedStartTime(hpa) IN
    IF stable_start # <<>>
    THEN "time_to_stabilize_s" :> Num(stable_start[1] - StabilizeAnchor(hpa, phases))
    ELSE EmptyDict

---------------------------------------------------------------------------
(* compute_derived_metrics: max replicas, pod-seconds *)

MaxReplicasOf(hpa) ==
    "max_replicas" :> Num(SeqMax(Column(hpa, "currentReplicas")))

\* A mutation of PodSecondsWith: integrates replicas over the time between
\* rows instead of using the fixed interval.
RECURSIVE DtWeightedReplicas(_, _)
DtWeightedReplicas(hpa, i) ==
    IF i > Len(hpa) THEN 0
    ELSE hpa[i].currentReplicas * (hpa[i].timestamp - hpa[i - 1].timestamp)
         + DtWeightedReplicas(hpa, i + 1)

PodSecondsDtWeighted(hpa, interval) == DtWeightedReplicas(hpa, 2)

\* int(hpa["currentReplicas"].sum() * interval)
PodSecondsWith(hpa, interval) ==
    SeqSum(Column(hpa, "currentReplicas")) * interval

PodSeconds(hpa) ==
    "pod_seconds" :> Num(PodSecondsWith(hpa, SampleIntervalSeconds))

---------------------------------------------------------------------------
(* Rounding.  round(n/d * scale) to the nearest integer, ties to even: what  *)
(* Python's round(x, ndigits) gives for the float nearest to n/d whenever    *)
(* n/d is not within one ulp of a tie it cannot represent; for a mean of     *)
(* fewer than 20 integers that is always the case (a tie of round(x, 1) or   *)
(* round(x, 2) then has a power of two as denominator and is exact).         *)

RoundDiv(n, d) ==
    LET q == n \div d
        r == n % d
    IN IF 2 * r < d THEN q
       ELSE IF 2 * r > d THEN q + 1
       ELSE IF q % 2 = 0 THEN q ELSE q + 1

\* round(vals.mean(), digits) with scale = 10^digits; the mean of an empty
\* series is NaN and round(NaN, digits) is NaN
MeanRounded(vals, scale) ==
    IF vals = <<>> THEN NaN
    ELSE Num(RoundDiv(SeqSum(vals) * scale, Len(vals)))

---------------------------------------------------------------------------
(* compute_derived_metrics: average CPU utilization (value in tenths) *)

\* cpu_col[hpa["timestamp"] >= stabilized_start_time], or the whole column
CpuWindow(hpa, stable_start) ==
    IF stable_start # <<>>
    THEN SelectSeq(hpa, LAMBDA s : s.timestamp >= stable_start[1])
    ELSE hpa

AvgCpuUtil(hpa) ==
    LET window == CpuWindow(hpa, StabilizedStartTime(hpa))
        cpu_vals == DropNa(Column(window, "currentCPUUtilizationPercent"))
    IN "avg_cpu_util" :> MeanRounded(cpu_vals, 10)

---------------------------------------------------------------------------
(* compute_derived_metrics: overshoot/undershoot area (value in tenths) *)

\* hpa.sort_values("timestamp") uses an unstable sort: every ordering of the
\* row positions with non-decreasing timestamps is a possible result.
RECURSIVE SortedOrdersOf(_, _)
SortedOrdersOf(hpa, left) ==
    IF left = {} THEN {<<>>}
    ELSE LET firsts == {i \in left :
                          \A j \in left : hpa[i].timestamp <= hpa[j].timestamp}
         IN UNION {{<<i>> \o rest : rest \in SortedOrdersOf(hpa, left \ {i})}
                   : i \in firsts}

SortedOrders(hpa) == SortedOrdersOf(hpa, 1..Len(hpa))

SortValues(hpa, order) == [i \in 1..Len(hpa) |-> hpa[order[i]]]

\* The term one row adds to area.
\* A mutation of AreaTerm: the rectangle uses the time to the next row, so
\* the first row counts and the last one does not.
AreaTermForward(hpa_sorted, i) ==
    LET util == hpa_sorted[i].currentCPUUtilizationPercent
        dt == IF i < Len(hpa_sorted)
              THEN hpa_sorted[i + 1].timestamp - hpa_sorted[i].timestamp
              ELSE 0
    IN IF IsNum(util) THEN Abs(util.val - TARGET_UTIL) * dt ELSE 0

\* A mutation of AreaTerm: prev_time only advances on rows with a numeric
\* utilization.
AreaTermNumericPrev(hpa_sorted, i) ==
    LET numeric == {j \in 1..(i - 1) : IsNum(hpa_sorted[j].currentCPUUtilizationPercent)}
        prev_time == IF numeric = {} THEN hpa_sorted[1].timestamp
                     ELSE hpa_sorted[CHOOSE j \in numeric : \A k \in numeric : k <= j].timestamp
        dt == hpa_sorted[i].timestamp - prev_time
        util == hpa_sorted[i].currentCPUUtilizationPercent
    IN IF IsNum(util) THEN Abs(util.val - TARGET_UTIL) * dt ELSE 0

\* One iteration of `for _, row in hpa_sorted.iterrows()`: prev_time is the
\* previous row's timestamp (the first row's own timestamp for the first row)
AreaTerm(hpa_sorted, i) ==
    LET prev_time == IF i = 1 THEN hpa_sorted[1].timestamp
                     ELSE hpa_sorted[i - 1].timestamp
        dt == hpa_sorted[i].timestamp - prev_time
        util == hpa_sorted[i].currentCPUUtilizationPercent
    IN IF IsNum(util) THEN Abs(util.val - TARGET_UTIL) * dt ELSE 0

RECURSIVE AreaFrom(_, _)
AreaFrom(hpa_sorted, i) ==
    IF i > Len(hpa_sorted) THEN 0
    ELSE AreaTerm(hpa_sorted, i) + AreaFrom(hpa_sorted, i + 1)

\* round(area, 1), in tenths
OvershootArea(hpa, order) ==
    "overshoot_undershoot_area" :> Num(10 * AreaFrom(SortValues(hpa, order), 1))

---------------------------------------------------------------------------
(* compute_derived_metrics (pcm): average HTTP requests/s (hundredths) *)

DedicatedVals(run_data) == DropNa(Column(run_data.http_rps, "total_rps"))

HpaRpsVals(run_data) == DropNa(Column(run_data.hpa_log, "httpRequestsPerSecond"))

PromRates(run_data) ==
    SelectSeq(run_data.prometheus, LAMBDA r : r.metric = "http_requests_rate")

\* A mutation of ThroughputSource: the HPA custom metric is preferred to the
\* dedicated collector.
ThroughputSourceHpaFirst(run_data) ==
    IF HpaRpsVals(run_data) # <<>> THEN "hpa"
    ELSE IF DedicatedVals(run_data) # <<>> THEN "dedicated"
    ELSE IF PromRates(run_data) # <<>> THEN "prometheus"
    ELSE "none"

\* Which of the three `avg_http_rps = ...` assignments runs
ThroughputSource(run_data) ==
    IF DedicatedVals(run_data) # <<>> THEN "dedicated"
    ELSE IF HpaRpsVals(run_data) # <<>> THEN "hpa"
    ELSE IF PromRates(run_data) # <<>> THEN "prometheus"
    ELSE "none"

Throughput(run_data) ==
    LET source == ThroughputSource(run_data)
        vals == IF source = "dedicated" THEN DedicatedVals(run_data)
                ELSE IF source = "hpa" THEN HpaRpsVals(run_data)
                ELSE DropNa(Column(PromRates(run_data), "value"))
        peak == IF DedicatedVals(run_data) # <<>>
                THEN "peak_http_rps" :> Num(100 * SeqMax(DedicatedVals(run_data)))
                ELSE EmptyDict
    IN IF source = "none" THEN peak
       ELSE peak @@ ("avg_http_rps" :> MeanRounded(vals, 100))

---------------------------------------------------------------------------
(* Strings are sequences of one-character strings over the alphabet        *)
(* Digits \cup {".", "m", " ", "x"}; "x" stands for any character that     *)
(* occurs in no numeric literal.                                           *)

Digits == <<"0", "1", "2", "3", "4", "5", "6", "7", "8", "9">>

IsDigit(c) == \E d \in 1..10 : Digits[d] = c

DigitVal(c) == (CHOOSE d \in 1..10 : Digits[d] = c) - 1

\* str.strip()
RECURSIVE LStrip(_)
LStrip(s) == IF s # <<>> /\ Head(s) = " " THEN LStrip(Tail(s)) ELSE s

RECURSIVE RStrip(_)
RStrip(s) ==
    IF s # <<>> /\ s[Len(s)] = " " THEN RStrip(SubSeq(s, 1, Len(s) - 1)) ELSE s

Strip(s) == RStrip(LStrip(s))

AllDigits(s) == \A i \in 1..Len(s) : IsDigit(s[i])

RECURSIVE DigitsValue(_)
DigitsValue(s) ==
    IF s = <<>> THEN 0
    ELSE 10 * DigitsValue(SubSeq(s, 1, Len(s) - 1)) + DigitVal(s[Len(s)])

RECURSIVE Pow10(_)
Pow10(n) == IF n = 0 THEN 1 ELSE 10 * Pow10(n - 1)

Raise == [kind |-> "raise", val |-> 0]

\* int(s) for a string s: surrounding blanks are ignored, the rest must be
\* one or more digits; anything else raises ValueError
PyInt(s) ==
    LET t == Strip(s) IN
    IF t # <<>> /\ AllDigits(t) THEN Num(DigitsValue(t)) ELSE Raise

\* float(s) as an exact fraction num/den: digits with at most one "." and at
\* least one digit; anything else raises ValueError
PyFloatLiteral(s) ==
    LET t == Strip(s)
        dots == {i \in 1..Len(t) : t[i] = "."}
        int_part == IF dots = {} THEN t
                    ELSE SubSeq(t, 1, (CHOOSE i \in dots : TRUE) - 1)
        frac_part == IF dots = {} THEN <<>>
                     ELSE SubSeq(t, (CHOOSE i \in dots : TRUE) + 1, Len(t))
    IN IF Cardinality(dots) <= 1 /\ AllDigits(int_part) /\ AllDigits(frac_part)
          /\ Len(int_part) + Len(frac_part) >= 1
       THEN [ok |-> TRUE,
             num |-> DigitsValue(int_part \o frac_part),
             den |-> Pow10(Len(frac_part))]
       ELSE [ok |-> FALSE, num |-> 0, den |-> 1]

---------------------------------------------------------------------------
(* IEEE-754 binary64 arithmetic for float(val) * 1000.  A positive double  *)
(* is [bits, exp]: 53 bits, most significant first and leading bit 1, of   *)
(* the integer significand, and the exponent of its last bit.              *)

MantissaBits == 53

\* n/d = (n'/d') * 2^k with d' <= n' < 2 d'
RECURSIVE Normalize(_, _, _)
Normalize(n, d, k) ==
    IF n >= 2 * d THEN Normalize(n, 2 * d, k + 1)
    ELSE IF n < d THEN Normalize(2 * n, d, k - 1)
    ELSE [n |-> n, d |-> d, k |-> k]

\* Long division: the next `count` binary digits of r/d and the remainder
RECURSIVE FracBits(_, _, _, _)
FracBits(r, d, acc, count) ==
    IF count = 0 THEN [bits |-> acc, rem |-> r]
    ELSE IF 2 * r >= d THEN FracBits(2 * r - d, d, Append(acc, 1), count - 1)
    ELSE FracBits(2 * r, d, Append(acc, 0), count - 1)

\* bits + 1; one bit longer when every bit was 1
RECURSIVE IncBits(_)
IncBits(bits) ==
    IF bits = <<>> THEN <<1>>
    ELSE IF bits[Len(bits)] = 0 THEN SubSeq(bits, 1, Len(bits) - 1) \o <<1>>
    ELSE IncBits(SubSeq(bits, 1, Len(bits) - 1)) \o <<0>>

\* Round to nearest, ties to even, given the kept bits and whether the
\* discarded part is more than, exactly, or less than half a unit
RoundedDouble(bits, exp, above_half, exactly_half) ==
    LET up == above_half \/ (exactly_half /\ bits[Len(bits)] = 1)
        r == IF up THEN IncBits(bits) ELSE bits
    IN IF Len(r) > MantissaBits
       THEN [bits |-> SubSeq(r, 1, MantissaBits), exp |-> exp + 1]
       ELSE [bits |-> r, exp |-> exp]

\* The double nearest to num/den (num, den > 0): the result of float(val)
DoubleOf(num, den) ==
    LET nm == Normalize(num, den, 0)
        fb == FracBits(nm.n - nm.d, nm.d, <<1>>, MantissaBits - 1)
    IN RoundedDouble(fb.bits, nm.k - (MantissaBits - 1),
                     2 * fb.rem > nm.d, 2 * fb.rem = nm.d)

\* bits * c exactly, least significant bit first
RECURSIVE MulLsb(_, _, _)
MulLsb(lsb, c, carry) ==
    IF lsb = <<>>
    THEN IF carry = 0 THEN <<>> ELSE <<carry % 2>> \o MulLsb(<<>>, c, carry \div 2)
    ELSE LET t == Head(lsb) * c + carry
         IN <<t % 2>> \o MulLsb(Tail(lsb), c, t \div 2)

Reverse(s) == [i \in 1..Len(s) |-> s[Len(s) + 1 - i]]

\* x * c for a double x and a small positive integer c, rounded to a double
DoubleTimes(x, c) ==
    LET prod == Reverse(MulLsb(Reverse(x.bits), c, 0))
        extra == Len(prod) - MantissaBits
        rest == SubSeq(prod, MantissaBits + 1, Len(prod))
        sticky == \E j \in 2..Len(rest) : rest[j] = 1
    IN IF extra <= 0 THEN [bits |-> prod, exp |-> x.exp]
       ELSE RoundedDouble(SubSeq(prod, 1, MantissaBits), x.exp + extra,
                          rest[1] = 1 /\ sticky, rest[1] = 1 /\ ~sticky)

RECURSIVE BitsValue(_)
BitsValue(bits) ==
    IF bits = <<>> THEN 0
    ELSE 2 * BitsValue(SubSeq(bits, 1, Len(bits) - 1)) + bits[Len(bits)]

\* int(x): truncation toward zero of a positive double below 2^52
DoubleToInt(x) ==
    LET keep == Len(x.bits) + x.exp
    IN IF keep <= 0 THEN 0 ELSE BitsValue(SubSeq(x.bits, 1, keep))

\* int(float(val) * 1000) for the literal num/den
FloatTimes1000(num, den) ==
    IF num = 0 THEN 0 ELSE DoubleToInt(DoubleTimes(DoubleOf(num, den), 1000))

---------------------------------------------------------------------------
(* compute_derived_metrics: pod CPU dispersion (value in tenths) *)

\* parse_cpu with every failure turned into missing data (None): what the
\* callers of the normalizer are specified to see.
ParseCpuLenient(v, val) ==
    LET t == Strip(val) IN
    IF t # <<>> /\ t[Len(t)] = "m"
    THEN LET n == PyInt(SubSeq(t, 1, Len(t) - 1))
         IN IF n = Raise THEN None ELSE n
    ELSE LET f == PyFloatLiteral(t) IN
         IF f.ok THEN Num(FloatTimes1000(f.num, f.den)) ELSE None

\* parse_cpu(val): Num(milli), None (pcm, float() failed) or Raise
ParseCpu(v, val) ==
    LET t == Strip(val) IN
    IF t # <<>> /\ t[Len(t)] = "m"
    THEN PyInt(SubSeq(t, 1, Len(t) - 1))
    ELSE LET f == PyFloatLiteral(t) IN
         IF f.ok THEN Num(FloatTimes1000(f.num, f.den))
         ELSE IF v = "pcm" THEN None ELSE Raise

\* floor(sqrt(x)) by bisection on lo <= sqrt(x) < hi
RECURSIVE ISqrtIn(_, _, _)
ISqrtIn(x, lo, hi) ==
    IF hi - lo <= 1 THEN lo
    ELSE LET mid == (lo + hi) \div 2
         IN IF mid * mid <= x THEN ISqrtIn(x, mid, hi) ELSE ISqrtIn(x, lo, mid)

ISqrt(x) == ISqrtIn(x, 0, 46341)

\* sum over i < j of (vals[i] - vals[j])^2 = n * sum(x^2) - sum(x)^2
SumSqDiffs(vals) ==
    LET pairs == {p \in (1..Len(vals)) \X (1..Len(vals)) : p[1] < p[2]}
        sq[ps \in SUBSET pairs] ==
            IF ps = {} THEN 0
            ELSE LET p == CHOOSE q \in ps : TRUE
                 IN (vals[p[1]] - vals[p[2]]) * (vals[p[1]] - vals[p[2]])
                    + sq[ps \ {p}]
    IN sq[pairs]

\* round(series.std(), 1) in tenths: the sample standard deviation (ddof=1),
\* NaN for fewer than two values.  std^2 = SumSqDiffs / (n (n-1)), and
\* round(10 std) = floor((floor(20 std) + 1) / 2); 10 std is never a tie for
\* fewer than 16 integer values.
StdRounded(vals) ==
    LET n == Len(vals) IN
    IF n < 2 THEN NaN
    ELSE Num((ISqrt((400 * SumSqDiffs(vals)) \div (n * (n - 1))) + 1) \div 2)

PodCpuStdDev(v, pod_cpu) ==
    IF pod_cpu = <<>> THEN EmptyDict
    ELSE LET cpu_milli == [i \in 1..Len(pod_cpu) |-> ParseCpu(v, pod_cpu[i].cpu)]
         IN IF \E i \in 1..Len(pod_cpu) : cpu_milli[i] = Raise
            THEN IF v = "krm" THEN "pod_cpu_std_dev" :> None ELSE EmptyDict
            ELSE "pod_cpu_std_dev" :> StdRounded(DropNa(cpu_milli))

---------------------------------------------------------------------------
(* compute_derived_metrics *)

\* `if hpa.empty or phases.empty: return metrics`
\* A mutation of EarlyReturn: only the autoscaler log is required.
EarlyReturnHpaOnly(run_data) == run_data.hpa_log = <<>>

EarlyReturn(run_data) == run_data.hpa_log = <<>> \/ run_data.phases = <<>>

\* order is the row order sort_values produced for the area computation
ComputeDerivedMetrics(v, run_data, order) ==
    LET hpa == run_data.hpa_log
        phases == run_data.phases
    IN IF EarlyReturn(run_data) THEN EmptyDict
       ELSE TimeToScaleUp(hpa, phases)
            @@ TimeToStabilize(hpa, phases)
            @@ MaxReplicasOf(hpa)
            @@ AvgCpuUtil(hpa)
            @@ (IF v = "pcm" THEN Throughput(run_data) ELSE EmptyDict)
            @@ OvershootArea(hpa, order)
            @@ PodSeconds(hpa)
            @@ PodCpuStdDev(v, run_data.pod_cpu)

---------------------------------------------------------------------------
(* src/pcm-exp/app/server.py: the request counter of the benchmark server. *)
(* Handlers may run concurrently (as under a threading server); each step  *)
(* below is one atomic step of one handler.  `REQUESTS_TOTAL += 1` is a    *)
(* load followed by a store.                                               *)

MaxHandlers == 2
MaxRequests == 4
Handlers == 1..MaxHandlers
Paths == {"/", "/metrics", "/healthz"}
NoHolder == 0

IdleHandler == [pc |-> "idle", path |-> "", value |-> 0]

ServerInit ==
    /\ REQUESTS_TOTAL = 0
    /\ REQUESTS_LOCK = NoHolder
    /\ handler = [h \in Handlers |-> IdleHandler]
    /\ accepted = 0
    /\ completed = 0
    /\ reads = <<>>

\* A mutation of LockFree: the lock never blocks
LockNeverBlocks(lock) == TRUE

\* threading.Lock: acquire() blocks while another thread holds the lock
LockFree(lock) == lock = NoHolder

Goto(h, label) == handler' = [handler EXCEPT ![h].pc = label]

\* do_GET: dispatch on self.path
DoGET(h, path) ==
    /\ handler[h].pc = "idle"
    /\ accepted < MaxRequests
    /\ accepted' = accepted + 1
    /\ handler' = [handler EXCEPT ![h].path = path,
                                  ![h].pc = IF path = "/metrics" THEN "get_acquire"
                                            ELSE IF path = "/healthz" THEN "respond"
                                            ELSE "inc_acquire"]
    /\ UNCHANGED <<analysisVars, REQUESTS_TOTAL, REQUESTS_LOCK, completed, reads>>

\* increment_requests: `with REQUESTS_LOCK:`
IncAcquire(h) ==
    /\ handler[h].pc = "inc_acquire"
    /\ LockFree(REQUESTS_LOCK)
    /\ REQUESTS_LOCK' = h
    /\ Goto(h, "inc_load")
    /\ UNCHANGED <<analysisVars, REQUESTS_TOTAL, accepted, completed, reads>>

\* increment_requests: the read of `REQUESTS_TOTAL += 1`
IncLoad(h) ==
    /\ handler[h].pc = "inc_load"
    /\ handler' = [handler EXCEPT ![h].value = REQUESTS_TOTAL, ![h].pc = "inc_store"]
    /\ UNCHANGED <<analysisVars, REQUESTS_TOTAL, REQUESTS_LOCK, accepted, completed, reads>>

\* increment_requests: the write of `REQUESTS_TOTAL += 1`
IncStore(h) ==
    /\ handler[h].pc = "inc_store"
    /\ REQUESTS_TOTAL' = handler[h].value + 1
    /\ Goto(h, "inc_release")
    /\ UNCHANGED <<analysisVars, REQUESTS_LOCK, accepted, completed, reads>>

\* increment_requests: leaving the `with` block; the call returns
IncRelease(h) ==
    /\ handler[h].pc = "inc_release"
    /\ REQUESTS_LOCK' = NoHolder
    /\ completed' = completed + 1
    /\ Goto(h, "respond")
    /\ UNCHANGED <<analysisVars, REQUESTS_TOTAL, accepted, reads>>

\* get_requests_total: `with REQUESTS_LOCK:`
GetAcquire(h) ==
    /\ handler[h].pc = "get_acquire"
    /\ LockFree(REQUESTS_LOCK)
    /\ REQUESTS_LOCK' = h
    /\ Goto(h, "get_read")
    /\ UNCHANGED <<analysisVars, REQUESTS_TOTAL, accepted, completed, reads>>

\* get_requests_total: `return REQUESTS_TOTAL`, the value /metrics exposes
GetRead(h) ==
    /\ handler[h].pc = "get_read"
    /\ handler' = [handler EXCEPT ![h].value = REQUESTS_TOTAL, ![h].pc = "get_release"]
    /\ reads' = Append(reads, [total |-> REQUESTS_TOTAL, completed |-> completed])
    /\ UNCHANGED <<analysisVars, REQUESTS_TOTAL, REQUESTS_LOCK, accepted, completed>>

\* get_requests_total: leaving the `with` block
GetRelease(h) ==
    /\ handler[h].pc = "get_release"
    /\ REQUESTS_LOCK' = NoHolder
    /\ Goto(h, "respond")
    /\ UNCHANGED <<analysisVars, REQUESTS_TOTAL, accepted, completed, reads>>

\* burn_cpu (for the counted paths) and _send_response
SendResponse(h) ==
    /\ handler[h].pc = "respond"
    /\ handler' = [handler EXCEPT ![h] = IdleHandler]
    /\ UNCHANGED <<analysisVars, REQUESTS_TOTAL, REQUESTS_LOCK, accepted, completed, reads>>

NextServer ==
    \E h \in Handlers :
        \/ \E path \in Paths : DoGET(h, path)
        \/ IncAcquire(h) \/ IncLoad(h) \/ IncStore(h) \/ IncRelease(h)
        \/ GetAcquire(h) \/ GetRead(h) \/ GetRelease(h)
        \/ SendResponse(h)

---------------------------------------------------------------------------
(* main *)

\* `if not data: ... sys.exit(1)`
ExitNoData ==
    /\ pc = "loaded"
    /\ data = <<>>
    /\ pc' = "exit"
    /\ UNCHANGED <<variant, data, summary, summary_table, serverVars>>

\* OUTPUT_DIR.mkdir and the plots, which only read data
GeneratePlots ==
    /\ pc = "loaded"
    /\ data # <<>>
    /\ pc' = "metrics"
    /\ UNCHANGED <<variant, data, summary, summary_table, serverVars>>

\* One iteration of `for label, run_data in data.items()`
ComputeMetrics ==
    /\ pc = "metrics"
    /\ Len(summary) < Len(data)
    /\ LET run_data == data[Len(summary) + 1] IN
       \E order \in SortedOrders(run_data.hpa_log) :
           summary' = Append(summary,
                             ComputeDerivedMetrics(variant, run_data, order))
    /\ UNCHANGED <<variant, data, pc, summary_table, serverVars>>

\* `if summary: ... df_summary.to_csv(...)`
SummaryTable ==
    /\ pc = "metrics"
    /\ Len(summary) = Len(data)
    /\ summary_table' = IF summary # <<>> THEN summary ELSE <<>>
    /\ pc' = "done"
    /\ UNCHANGED <<variant, data, summary, serverVars>>

Next == ExitNoData \/ GeneratePlots \/ ComputeMetrics \/ SummaryTable

---------------------------------------------------------------------------
(* Inputs.  Every specification runs main() on the runs load_all_runs()   *)
(* returned; the specifications differ in the tables they draw.           *)

Variants == {"krm", "pcm"}

SeqsUpTo(S, n) == UNION {[1..k -> S] : k \in 0..n}

Sample(t, r, u, q) ==
    [timestamp |-> t, currentReplicas |-> r,
     currentCPUUtilizationPercent |-> u, httpRequestsPerSecond |-> q]

PhaseEvent(t, p, a) == [timestamp |-> t, phase |-> p, action |-> a]

RunData(hpa, phases, pod_cpu, http_rps, prometheus) ==
    [hpa_log |-> hpa, phases |-> phases, pod_cpu |-> pod_cpu,
     http_rps |-> http_rps, prometheus |-> prometheus]

InitWith(runs) ==
    /\ variant \in Variants
    /\ data \in runs
    /\ summary = <<>>
    /\ pc = "loaded"
    /\ summary_table = <<>>
    /\ ServerInit

\* Replica traces: rows in any file order, utilization at the target
MaxSamples == 4
StabTimes == {0, 30, 90}
StabReplicas == {1, 2}
StabSamples == {Sample(t, r, Num(TARGET_UTIL), NaN) : t \in StabTimes, r \in StabReplicas}
PhaseTables ==
    { <<>>,
      <<PhaseEvent(0, "low", "start")>>,
      <<PhaseEvent(0, "high", "start")>>,
      <<PhaseEvent(30, "high", "start"), PhaseEvent(0, "high", "start")>>,
      <<PhaseEvent(0, "low", "start"), PhaseEvent(30, "high", "start")>>,
      <<PhaseEvent(0, "high", "end"), PhaseEvent(30, "low", "start")>> }

StabRuns ==
    {<<>>} \cup {<<RunData(h, p, <<>>, <<>>, <<>>)>> :
                   h \in SeqsUpTo(StabSamples, MaxSamples), p \in PhaseTables}

SpecStab == InitWith(StabRuns) /\ [][Next]_vars

---------------------------------------------------------------------------
(* Vocabulary of the properties *)

\* The runs whose metrics main() has computed
Processed == 1..Len(summary)

\* Both logs of run i have rows, so compute_derived_metrics went past its
\* early return
Ran(i) == data[i].hpa_log # <<>> /\ data[i].phases # <<>>

\* Rows a..b of tbl all report the replica count of row a
ConstantStretch(tbl, a, b) ==
    \A j \in a..b : tbl[j].currentReplicas = tbl[a].currentReplicas

StretchSpan(tbl, a, b) == tbl[b].timestamp - tbl[a].timestamp

\* No contiguous constant stretch of the sequence spans the threshold
NoLongStretch(tbl) ==
    \A a \in 1..Len(tbl) : \A b \in a..Len(tbl) :
        ConstantStretch(tbl, a, b) => StretchSpan(tbl, a, b) < PlateauSeconds

\* The first rows of the constant stretches that span the threshold
LongStretchStarts(tbl) ==
    {a \in 1..Len(tbl) : \E b \in a..Len(tbl) :
        ConstantStretch(tbl, a, b) /\ StretchSpan(tbl, a, b) >= PlateauSeconds}

SetMin(S) == CHOOSE x \in S : \A y \in S : x <= y

TimeOrdered(tbl) ==
    \A j \in 2..Len(tbl) : tbl[j - 1].timestamp <= tbl[j].timestamp

\* The timestamp of the earliest high/start event, <<>> if there is none
FirstHigh(phases) ==
    LET hs == {HighStarts(phases)[j].timestamp : j \in 1..Len(HighStarts(phases))}
    IN IF hs = {} THEN <<>> ELSE <<SetMin(hs)>>

---------------------------------------------------------------------------
\* C1: a sample sequence in which no contiguous stretch of identical
\* currentReplicas spans 60 s or more (last timestamp of the stretch minus
\* its first < 60) never yields time_to_stabilize_s; a differing sample
\* resets the plateau, so the time on its two sides is never added up.
C1_NoPlateauBelowThreshold ==
    \A i \in Processed :
        NoLongStretch(data[i].hpa_log) => ~Has(summary[i], "time_to_stabilize_s")

\* A processed run with two constant stretches of less than 60 s each,
\* separated by a change of replica count and together spanning 60 s or more
C1_Witness ==
    \E i \in Processed :
        LET hpa == data[i].hpa_log IN
        /\ Ran(i)
        /\ NoLongStretch(hpa)
        /\ \E a \in 1..Len(hpa) : \E c \in (a + 2)..Len(hpa) : \E b \in (c + 1)..Len(hpa) :
              /\ ConstantStretch(hpa, a, c - 1)
              /\ hpa[c].currentReplicas # hpa[c - 1].currentReplicas
              /\ ConstantStretch(hpa, c, b)
              /\ StretchSpan(hpa, a, b) >= PlateauSeconds
        /\ ~Has(summary[i], "time_to_stabilize_s")

---------------------------------------------------------------------------
\* The anchor of the time-to-X metrics: the earliest high/start event, or the
\* earliest sample when there is none
Anchor(run_data) ==
    IF FirstHigh(run_data.phases) # <<>> THEN FirstHigh(run_data.phases)[1]
    ELSE SetMin({run_data.hpa_log[j].timestamp : j \in 1..Len(run_data.hpa_log)})

\* The plateau claim for one run, the samples taken in time order (any order
\* of samples with equal timestamps will do)
EarliestPlateauReported(run_data, m) ==
    \E order \in SortedOrders(run_data.hpa_log) :
        LET sorted == SortValues(run_data.hpa_log, order)
            starts == LongStretchStarts(sorted)
        IN starts # {} =>
             /\ Has(m, "time_to_stabilize_s")
             /\ m["time_to_stabilize_s"]
                  = Num(sorted[SetMin(starts)].timestamp - Anchor(run_data))

\* C2: for every sample sequence with a contiguous constant-replica stretch
\* spanning >= 60 s the scan reports one plateau onset, the first sample
\* timestamp of the earliest such stretch in time order, and
\* time_to_stabilize_s is that onset minus the anchor.
C2_EarliestPlateauReported ==
    \A i \in Processed : Ran(i) => EarliestPlateauReported(data[i], summary[i])

\* The same for the runs whose tables are stored in time order
C2_OnTimeOrderedTables ==
    \A i \in Processed :
        Ran(i) /\ TimeOrdered(data[i].hpa_log) /\ TimeOrdered(data[i].phases)
        => EarliestPlateauReported(data[i], summary[i])

---------------------------------------------------------------------------
\* The scale-up claim for one run with a high/start event
ScaleUpFromChronologicalScan(run_data, m) ==
    \E order \in SortedOrders(run_data.hpa_log) :
        LET hpa == run_data.hpa_log
            first_high == FirstHigh(run_data.phases)[1]
            initial == SortValues(hpa, order)[1].currentReplicas
            later == {hpa[j].timestamp : j \in {j \in 1..Len(hpa) :
                         /\ hpa[j].timestamp > first_high
                         /\ hpa[j].currentReplicas > initial}}
        IN IF later = {} THEN ~Has(m, "time_to_scale_up_s")
           ELSE /\ Has(m, "time_to_scale_up_s")
                /\ m["time_to_scale_up_s"] = Num(SetMin(later) - first_high)

\* C3: when a high/start event exists, time_to_scale_up_s is the timestamp
\* of the chronologically first sample later than firstHigh (the earliest
\* high/start event) with more replicas than the chronologically first
\* sample, minus firstHigh; when there is no such sample the key is absent.
C3_ScaleUpFromChronologicalScan ==
    \A i \in Processed :
        Ran(i) /\ FirstHigh(data[i].phases) # <<>>
        => ScaleUpFromChronologicalScan(data[i], summary[i])

\* The same for the runs whose tables are stored in time order
C3_OnTimeOrderedTables ==
    \A i \in Processed :
        /\ Ran(i) /\ FirstHigh(data[i].phases) # <<>>
        /\ TimeOrdered(data[i].hpa_log) /\ TimeOrdered(data[i].phases)
        => ScaleUpFromChronologicalScan(data[i], summary[i])

---------------------------------------------------------------------------
SetMax(S) == CHOOSE x \in S : \A y \in S : x >= y

ReplicaCounts(tbl) == {tbl[j].currentReplicas : j \in 1..Len(tbl)}

\* The first row of the maximal constant stretch that row b belongs to
RunStart(tbl, b) == SetMin({a \in 1..b : ConstantStretch(tbl, a, b)})

\* The rows at which a constant stretch, measured from its first row, has
\* lasted the threshold
AcceptingRows(tbl) ==
    {b \in 2..Len(tbl) :
        /\ RunStart(tbl, b) < b
        /\ StretchSpan(tbl, RunStart(tbl, b), b) >= PlateauSeconds}

---------------------------------------------------------------------------
\* The sum of the replica counts, from the multiset of counts alone
RECURSIVE WeightedCount(_, _)
WeightedCount(tbl, counts) ==
    IF counts = {} THEN 0
    ELSE LET r == CHOOSE x \in counts : TRUE
         IN r * Cardinality({j \in 1..Len(tbl) : tbl[j].currentReplicas = r})
            + WeightedCount(tbl, counts \ {r})

ReplicaTotal(tbl) == WeightedCount(tbl, ReplicaCounts(tbl))

\* C7: pod_seconds is the sum of currentReplicas over all samples times the
\* fixed interval 5, whatever the timestamps, and doubling the interval
\* doubles it.
C7_PodSecondsFixedInterval ==
    \A i \in Processed :
        LET hpa == data[i].hpa_log
            m == summary[i]
        IN Ran(i) =>
            /\ Has(m, "pod_seconds")
            /\ m["pod_seconds"] = Num(ReplicaTotal(hpa) * SampleIntervalSeconds)
            /\ PodSecondsWith(hpa, 2 * SampleIntervalSeconds)
                 = 2 * m["pod_seconds"].val

\* A processed run whose samples are unevenly spaced in time
C7_Witness ==
    \E i \in Processed :
        LET hpa == data[i].hpa_log IN
        /\ Ran(i) /\ Len(hpa) >= 3
        /\ hpa[2].timestamp - hpa[1].timestamp # hpa[3].timestamp - hpa[2].timestamp
        /\ hpa[1].currentReplicas # hpa[2].currentReplicas
        /\ summary[i]["pod_seconds"] = Num(ReplicaTotal(hpa) * SampleIntervalSeconds)

---------------------------------------------------------------------------
(* Throughput sources: a dedicated total_rps series of up to MaxRpsRows    *)
(* values, three autoscaler samples with or without the custom metric, and *)
(* a prometheus table; a non-numeric cell is NaN after to_numeric.         *)

MaxRpsRows == 3
RpsCells == {Num(10), Num(11), Num(12), NaN}
HttpRpsTables ==
    {[j \in 1..Len(col) |-> [total_rps |-> col[j]]] : col \in SeqsUpTo(RpsCells, MaxRpsRows)}

HpaWithRps(q1, q2, q3) ==
    <<Sample(0, 1, Num(TARGET_UTIL), q1), Sample(10, 1, Num(TARGET_UTIL), q2),
      Sample(20, 1, Num(TARGET_UTIL), q3)>>

HpaRpsTables ==
    {HpaWithRps(NaN, NaN, NaN), HpaWithRps(Num(9), Num(9), Num(9)),
     HpaWithRps(NaN, Num(9), Num(4)), HpaWithRps(Num(7), NaN, NaN)}

PromRow(name, v) == [metric |-> name, value |-> v]

PromTables ==
    { <<>>,
      <<PromRow("http_requests_rate", Num(5)), PromRow("http_requests_rate", Num(8))>>,
      <<PromRow("http_requests_rate", NaN)>>,
      <<PromRow("cpu_usage", Num(3)), PromRow("http_requests_rate", Num(6))>> }

ThroughputRuns ==
    {<<>>} \cup {<<RunData(h, <<PhaseEvent(0, "high", "start")>>, <<>>, d, p)>> :
                   h \in HpaRpsTables, d \in HttpRpsTables, p \in PromTables}

SpecThroughput == InitWith(ThroughputRuns) /\ [][Next]_vars

\* avg_http_rps of the run with its autoscaler and prometheus tables replaced
AvgHttpRpsWith(run_data, h, p) ==
    LET changed == [run_data EXCEPT !.hpa_log = h, !.prometheus = p]
    IN {ComputeDerivedMetrics("pcm", changed, order)["avg_http_rps"] :
          order \in SortedOrders(h)}

\* C5: avg_http_rps comes from the first of dedicated total_rps, HPA
\* httpRequestsPerSecond, prometheus http_requests_rate that has a numeric
\* value, and from it alone: while a higher-ranked source has a numeric
\* value, changing or removing the lower-ranked ones leaves it unchanged.
C5_ThroughputPrecedence ==
    \A i \in Processed :
        LET run_data == data[i]
            m == summary[i]
            ded == DedicatedVals(run_data)
            hv == HpaRpsVals(run_data)
            pv == DropNa(Column(PromRates(run_data), "value"))
        IN variant = "pcm" /\ Ran(i) =>
            /\ ded # <<>> =>
                 /\ Has(m, "avg_http_rps")
                 /\ m["avg_http_rps"] = MeanRounded(ded, 100)
                 /\ \A h \in HpaRpsTables : \A p \in PromTables :
                        AvgHttpRpsWith(run_data, h, p) = {m["avg_http_rps"]}
            /\ ded = <<>> /\ hv # <<>> =>
                 /\ Has(m, "avg_http_rps")
                 /\ m["avg_http_rps"] = MeanRounded(hv, 100)
                 /\ \A p \in PromTables :
                        AvgHttpRpsWith(run_data, run_data.hpa_log, p) = {m["avg_http_rps"]}
            /\ ded = <<>> /\ hv = <<>> /\ pv # <<>> =>
                 /\ Has(m, "avg_http_rps")
                 /\ m["avg_http_rps"] = MeanRounded(pv, 100)

\* The run of the scenario: dedicated [10, 12, 11] beside HPA [9, 9, 9]
C5_Witness ==
    \E i \in Processed :
        /\ variant = "pcm"
        /\ DedicatedVals(data[i]) = <<10, 12, 11>>
        /\ HpaRpsVals(data[i]) = <<9, 9, 9>>
        /\ PromRates(data[i]) # <<>>
        /\ summary[i]["avg_http_rps"] = Num(1100)

---------------------------------------------------------------------------
(* Utilization traces: up to MaxAreaSamples rows in any file order, with   *)
(* equal timestamps allowed, utilization on, above or below the target or  *)
(* not numeric.                                                            *)

MaxAreaSamples == 3
AreaTimes == {0, 10, 20}
AreaUtils == {Num(TARGET_UTIL), Num(70), Num(45), NaN}
AreaSamples == {Sample(t, 1, u, NaN) : t \in AreaTimes, u \in AreaUtils}

AreaRuns ==
    {<<>>} \cup {<<RunData(h, <<PhaseEvent(0, "high", "start")>>, <<>>, <<>>, <<>>)>> :
                   h \in SeqsUpTo(AreaSamples, MaxAreaSamples)}

SpecArea == InitWith(AreaRuns) /\ [][Next]_vars

Deviates(s) ==
    /\ IsNum(s.currentCPUUtilizationPercent)
    /\ s.currentCPUUtilizationPercent.val # TARGET_UTIL

\* In this time order some deviating sample is strictly later than the
\* sample before it
DeviationAfterEarlierSample(sorted) ==
    \E j \in 2..Len(sorted) :
        Deviates(sorted[j]) /\ sorted[j].timestamp > sorted[j - 1].timestamp

\* C6 (as claimed): overshoot_undershoot_area is strictly positive for every
\* run with at least one sample whose numeric utilization differs from the
\* target 60, wherever that sample sits.
C6_AreaPositiveOnAnyDeviation ==
    \A i \in Processed :
        (\E j \in 1..Len(data[i].hpa_log) : Deviates(data[i].hpa_log[j]))
        => /\ Has(summary[i], "overshoot_undershoot_area")
           /\ summary[i]["overshoot_undershoot_area"].val > 0

\* C6 (amended): the area is strictly positive when, in time order, some
\* sample whose numeric utilization differs from 60 is strictly later than
\* the sample before it; a deviating sample that is first in time order, or
\* has the timestamp of the sample sorted before it, has dt = 0 and adds
\* nothing, and the area is 0 when every deviating sample is such.
C6_AreaPositiveOnLaterDeviation ==
    \A i \in Processed :
        LET hpa == data[i].hpa_log
            m == summary[i]
            orders == SortedOrders(hpa)
        IN Ran(i) =>
            /\ Has(m, "overshoot_undershoot_area")
            /\ (\A o \in orders : DeviationAfterEarlierSample(SortValues(hpa, o)))
                 => m["overshoot_undershoot_area"].val > 0
            /\ (\A o \in orders : ~DeviationAfterEarlierSample(SortValues(hpa, o)))
                 => m["overshoot_undershoot_area"].val = 0

\* A processed run of two samples, both off target: only the later one counts
C6_Witness ==
    \E i \in Processed :
        LET hpa == data[i].hpa_log IN
        /\ Ran(i) /\ Len(hpa) = 2
        /\ Deviates(hpa[1]) /\ Deviates(hpa[2])
        /\ hpa[1].currentCPUUtilizationPercent # hpa[2].currentCPUUtilizationPercent
        /\ hpa[1].timestamp < hpa[2].timestamp
        /\ summary[i]["overshoot_undershoot_area"]
             = Num(10 * Abs(hpa[2].currentCPUUtilizationPercent.val - TARGET_UTIL)
                      * (hpa[2].timestamp - hpa[1].timestamp))

---------------------------------------------------------------------------
(* Pod CPU tables: the two encodings of k milli-units for k up to MaxMilli, *)
(* and tables of up to MaxPodRows quantities, well-formed or not.           *)

RECURSIVE DecimalDigits(_)
DecimalDigits(n) ==
    IF n < 10 THEN <<Digits[n + 1]>>
    ELSE DecimalDigits(n \div 10) \o <<Digits[(n % 10) + 1]>>

\* "<k>m"
MilliString(k) == DecimalDigits(k) \o <<"m">>

RECURSIVE StripZeros(_)
StripZeros(s) ==
    IF s # <<>> /\ s[Len(s)] = "0" THEN StripZeros(SubSeq(s, 1, Len(s) - 1)) ELSE s

\* k/1000 as a bare decimal: "0.1" for 100, "1.001" for 1001, "2" for 2000
DecimalString(k) ==
    LET frac == k % 1000
        three == <<Digits[(frac \div 100) + 1], Digits[((frac \div 10) % 10) + 1],
                   Digits[(frac % 10) + 1]>>
    IN DecimalDigits(k \div 1000)
       \o (IF frac = 0 THEN <<>> ELSE <<".">> \o StripZeros(three))

CpuRow(str) == [cpu |-> str]

MaxMilli == 1100
EncodingTables ==
    {<<CpuRow(MilliString(k)), CpuRow(DecimalString(k))>> : k \in 0..MaxMilli}

MaxPodRows == 3
CpuStrings ==
    { <<"1", "0", "0", "m">>, <<"2", "5", "0", "m">>, <<"0", ".", "3">>,
      <<" ", "4", "0", "m">>, <<"x">>, <<"1", ".", "5", "m">>, <<"x", "m">>,
      <<"0", ".", "0", "0", "1", "5">>, <<"0", ".", "0", "0", "0", "6">> }
QuantityTables ==
    {[j \in 1..Len(col) |-> CpuRow(col[j])] : col \in SeqsUpTo(CpuStrings, MaxPodRows)}

CpuHpa == <<Sample(0, 1, Num(TARGET_UTIL), NaN), Sample(10, 2, Num(TARGET_UTIL), NaN)>>

CpuRuns ==
    {<<>>} \cup {<<RunData(CpuHpa, <<PhaseEvent(0, "high", "start")>>, c, <<>>, <<>>)>> :
                   c \in EncodingTables \cup QuantityTables}

SpecCpu == InitWith(CpuRuns) /\ [][Next]_vars

\* C8: parse_cpu maps the two encodings of one quantity to the same integer:
\* for every k >= 0 the milli-suffixed string for k ("100m") and the bare
\* decimal string for k/1000 ("0.1") both give k.
C8_EncodingsAgree ==
    \A i \in Processed :
        LET pod_cpu == data[i].pod_cpu IN
        \A a \in 1..Len(pod_cpu) : \A b \in 1..Len(pod_cpu) :
            LET k == PyInt(SubSeq(pod_cpu[a].cpu, 1, Len(pod_cpu[a].cpu) - 1)) IN
            /\ IsNum(k)
            /\ pod_cpu[a].cpu = MilliString(k.val)
            /\ pod_cpu[b].cpu = DecimalString(k.val)
            => /\ ParseCpu(variant, pod_cpu[a].cpu) = k
               /\ ParseCpu(variant, pod_cpu[b].cpu) = k

\* The same for the quantities below one whole unit
C8_EncodingsAgreeBelowOneUnit ==
    \A i \in Processed :
        LET pod_cpu == data[i].pod_cpu IN
        \A a \in 1..Len(pod_cpu) : \A b \in 1..Len(pod_cpu) :
            LET k == PyInt(SubSeq(pod_cpu[a].cpu, 1, Len(pod_cpu[a].cpu) - 1)) IN
            /\ IsNum(k) /\ k.val <= 1000
            /\ pod_cpu[a].cpu = MilliString(k.val)
            /\ pod_cpu[b].cpu = DecimalString(k.val)
            => /\ ParseCpu(variant, pod_cpu[a].cpu) = k
               /\ ParseCpu(variant, pod_cpu[b].cpu) = k

---------------------------------------------------------------------------
Malformed(str) == ParseCpuLenient("pcm", str) = None

WellFormedMilli(pod_cpu) ==
    DropNa([j \in 1..Len(pod_cpu) |-> ParseCpuLenient("pcm", pod_cpu[j].cpu)])

\* C9: when some per-pod CPU strings are malformed, only those samples are
\* excluded: pod_cpu_std_dev is still produced and is the dispersion of the
\* well-formed ones, whatever the position and form of the malformed entry.
C9_MalformedExcluded ==
    \A i \in Processed :
        LET pod_cpu == data[i].pod_cpu IN
        Ran(i) /\ (\E j \in 1..Len(pod_cpu) : Malformed(pod_cpu[j].cpu))
        => /\ Has(summary[i], "pod_cpu_std_dev")
           /\ summary[i]["pod_cpu_std_dev"] = StdRounded(WellFormedMilli(pod_cpu))

\* The same for pcm-exp and entries that do not end in "m"
C9_PcmNonMilliExcluded ==
    \A i \in Processed :
        LET pod_cpu == data[i].pod_cpu IN
        /\ variant = "pcm" /\ Ran(i)
        /\ \E j \in 1..Len(pod_cpu) : Malformed(pod_cpu[j].cpu)
        /\ \A j \in 1..Len(pod_cpu) :
              Malformed(pod_cpu[j].cpu) => pod_cpu[j].cpu[Len(pod_cpu[j].cpu)] # "m"
        => /\ Has(summary[i], "pod_cpu_std_dev")
           /\ summary[i]["pod_cpu_std_dev"] = StdRounded(WellFormedMilli(pod_cpu))

---------------------------------------------------------------------------
(* Batches of up to MaxRuns runs, some of them without an autoscaler log  *)
(* or a phase log (no file, or a file with no rows).                      *)

MaxRuns == 2
BatchHpaTables ==
    { <<>>,
      <<Sample(0, 1, Num(TARGET_UTIL), NaN)>>,
      <<Sample(0, 1, Num(70), NaN), Sample(30, 2, Num(TARGET_UTIL), NaN)>> }
BatchPhaseTables ==
    { <<>>, <<PhaseEvent(0, "high", "start")>>, <<PhaseEvent(0, "low", "start")>> }
BatchPodCpuTables ==
    { <<>>, <<CpuRow(<<"1", "0", "0", "m">>), CpuRow(<<"2", "5", "0", "m">>)>> }
BatchRunData ==
    {RunData(h, p, c, <<>>, <<>>) :
        h \in BatchHpaTables, p \in BatchPhaseTables, c \in BatchPodCpuTables}

Spec == InitWith(SeqsUpTo(BatchRunData, MaxRuns)) /\ [][Next]_vars

LogMissing(i) == data[i].hpa_log = <<>> \/ data[i].phases = <<>>

\* C10: a run whose autoscaler log or phase log is missing or empty yields
\* the empty metrics record (no key at all), the runs with both logs have
\* their metrics wherever they stand in the batch, and when main is done
\* every run of the batch has its row in the summary table.
C10_EmptyRecordBatchContinues ==
    /\ \A i \in Processed :
          /\ LogMissing(i) => DOMAIN summary[i] = {}
          /\ ~LogMissing(i) =>
                {"max_replicas", "pod_seconds"} \subseteq DOMAIN summary[i]
    /\ pc = "done" => /\ Len(summary) = Len(data)
                      /\ summary_table = summary

C10_Witness ==
    /\ pc = "done"
    /\ Len(data) = 2
    /\ data[1].hpa_log # <<>> /\ data[1].phases = <<>> /\ data[1].pod_cpu # <<>>
    /\ ~LogMissing(2)
    /\ summary_table[1] = EmptyDict
    /\ Has(summary_table[2], "max_replicas")

---------------------------------------------------------------------------
AllRecordsEmpty ==
    /\ Len(summary) = Len(data)
    /\ \A i \in Processed : DOMAIN summary[i] = {}

\* C11: if every run's metrics record is empty, the batch ends in a failure
\* state and no summary table is written; an all-empty table is never written.
C11_AllEmptyBatchFails ==
    AllRecordsEmpty => /\ pc # "done"
                       /\ summary_table = <<>>

\* The same for a batch with no run directory at all
C11_NoRunsBatchFails ==
    data = <<>> => /\ pc \in {"loaded", "exit"}
                   /\ summary_table = <<>>

---------------------------------------------------------------------------
(* Utilization traces: one replica until t = 0, two from t = 30 on, rows in *)
(* any file order, utilization readings numeric or not.                     *)

MaxUtilSamples == 3
UtilReadings == {Num(TARGET_UTIL), Num(45), NaN}
UtilSamples ==
    {Sample(0, 1, u, NaN) : u \in UtilReadings}
    \cup {Sample(t, 2, u, NaN) : t \in {30, 90}, u \in UtilReadings}

UtilRuns ==
    {<<>>} \cup {<<RunData(h, <<PhaseEvent(0, "high", "start")>>, <<>>, <<>>, <<>>)>> :
                   h \in SeqsUpTo(UtilSamples, MaxUtilSamples)}

SpecUtil == InitWith(UtilRuns) /\ [][Next]_vars

\* The onset of the accepted plateau, read back from the record
StabilizedStartOf(run_data, m) == m["time_to_stabilize_s"].val + Anchor(run_data)

\* The samples the average is taken over
AveragedWindow(run_data, m) ==
    IF Has(m, "time_to_stabilize_s")
    THEN SelectSeq(run_data.hpa_log,
                   LAMBDA s : s.timestamp >= StabilizedStartOf(run_data, m))
    ELSE run_data.hpa_log

NumericReadings(tbl) ==
    SelectSeq(tbl, LAMBDA s : IsNum(s.currentCPUUtilizationPercent))

UtilSum(tbl) == SeqSum([j \in 1..Len(tbl) |-> tbl[j].currentCPUUtilizationPercent.val])

\* v tenths is num/den rounded to one decimal
IsNearestTenth(v, num, den) == 2 * Abs(v * den - 10 * num) <= den

\* Rectangle rule: every reading weighted by the time since the reading before
\* it; readings taken at one instant weigh the same
DtWeightedSum(tbl) ==
    SeqSum([j \in 1..Len(tbl) |->
              IF j = 1 THEN 0
              ELSE tbl[j].currentCPUUtilizationPercent.val
                     * (tbl[j].timestamp - tbl[j - 1].timestamp)])

IsTimeWeightedMean(v, tbl) ==
    LET span == tbl[Len(tbl)].timestamp - tbl[1].timestamp IN
    IF span = 0 THEN IsNearestTenth(v, UtilSum(tbl), Len(tbl))
    ELSE IsNearestTenth(v, DtWeightedSum(tbl), span)

\* C12: avg_cpu_util is the time-weighted mean of the numeric
\* utilization readings of the samples at or after stabilizedStart when a
\* plateau was accepted, of all samples otherwise.
C12_AvgCpuUtilTimeWeighted ==
    \A i \in Processed :
        LET readings == NumericReadings(AveragedWindow(data[i], summary[i])) IN
        Ran(i) /\ readings # <<>>
        => /\ Has(summary[i], "avg_cpu_util")
           /\ IsNum(summary[i]["avg_cpu_util"])
           /\ \E order \in SortedOrders(readings) :
                 IsTimeWeightedMean(summary[i]["avg_cpu_util"].val,
                                    SortValues(readings, order))

\* What holds instead: avg_cpu_util is the arithmetic mean, rounded to one
\* decimal, of the numeric utilization readings of exactly the samples with
\* timestamp >= stabilizedStart when a plateau was accepted, and of all
\* samples when none was; non-numeric readings are left out of the mean.
C12_AvgCpuUtilArithmeticMean ==
    \A i \in Processed :
        LET readings == NumericReadings(AveragedWindow(data[i], summary[i])) IN
        Ran(i) /\ readings # <<>>
        => /\ Has(summary[i], "avg_cpu_util")
           /\ IsNum(summary[i]["avg_cpu_util"])
           /\ IsNearestTenth(summary[i]["avg_cpu_util"].val,
                             UtilSum(readings), Len(readings))

---------------------------------------------------------------------------
OrderSensitiveKeys ==
    {"time_to_scale_up_s", "time_to_stabilize_s", "avg_cpu_util",
     "overshoot_undershoot_area"}

SameOn(keys, m1, m2) ==
    \A k \in keys : /\ Has(m1, k) <=> Has(m2, k)
                    /\ Has(m1, k) => m1[k] = m2[k]

\* The records compute_derived_metrics can return for the run with both
\* tables put in time order
TimeSortedRecords(v, run_data) ==
    {ComputeDerivedMetrics(v,
        [run_data EXCEPT !.hpa_log = SortValues(run_data.hpa_log, ho),
                         !.phases = SortValues(run_data.phases, po)],
        [j \in 1..Len(run_data.hpa_log) |-> j]) :
        ho \in SortedOrders(run_data.hpa_log), po \in SortedOrders(run_data.phases)}

\* C13: the derived metrics do not depend on the row order of the input
\* tables: whatever the order of the sample rows and of the phase rows,
\* time_to_scale_up_s, time_to_stabilize_s, avg_cpu_util and
\* overshoot_undershoot_area are those of the time-sorted input.
C13_RowOrderIndependent ==
    \A i \in Processed :
        \E ref \in TimeSortedRecords(variant, data[i]) :
            SameOn(OrderSensitiveKeys, summary[i], ref)

\* The same for the one scan that sorts first
C13_AreaRowOrderIndependent ==
    \A i \in Processed :
        \E ref \in TimeSortedRecords(variant, data[i]) :
            SameOn({"overshoot_undershoot_area"}, summary[i], ref)

---------------------------------------------------------------------------
\* C14: every key present in a run's metrics record holds a defined numeric
\* scalar; a metric that cannot be computed is left out, never stored as
\* None or NaN.
C14_PresentKeysNumeric ==
    \A i \in Processed : \A k \in DOMAIN summary[i] : IsNum(summary[i][k])

\* The same for the keys other than the three averages and dispersions
C14_TimeAndCountKeysNumeric ==
    \A i \in Processed :
        \A k \in DOMAIN summary[i] \ {"avg_cpu_util", "avg_http_rps", "pod_cpu_std_dev"} :
            IsNum(summary[i][k])

---------------------------------------------------------------------------
(* The benchmark server on its own: up to MaxHandlers handlers serving up *)
(* to MaxRequests requests; the analysis has not been started.            *)

InitServer ==
    /\ variant = "pcm"
    /\ data = <<>>
    /\ summary = <<>>
    /\ pc = "loaded"
    /\ summary_table = <<>>
    /\ ServerInit

SpecServer == InitServer /\ [][NextServer]_vars

\* The handlers between the store of an increment and the return of its call
StoredNotReturned == {h \in Handlers : handler[h].pc = "inc_release"}

\* C15: under every interleaving of the handlers REQUESTS_TOTAL is updated
\* atomically.  It counts exactly the increment_requests calls (made for the
\* paths other than /metrics and /healthz) whose store is done: whenever the
\* lock is free it equals the number of calls that have returned, and inside
\* a call it is ahead by that call alone; no update is lost.  Every value
\* read for /metrics is the number of calls returned at that time, and the
\* values read never decrease from one read to the next.
C15_CounterAtomic ==
    /\ REQUESTS_TOTAL = completed + Cardinality(StoredNotReturned)
    /\ Cardinality(StoredNotReturned) <= 1
    /\ REQUESTS_LOCK = NoHolder => REQUESTS_TOTAL = completed
    /\ \A j \in 1..Len(reads) : reads[j].total = reads[j].completed
    /\ \A j \in 2..Len(reads) : reads[j - 1].total <= reads[j].total
    /\ \A h \in Handlers :
          handler[h].path \in {"/metrics", "/healthz"}
          => handler[h].pc \notin {"inc_acquire", "inc_load", "inc_store", "inc_release"}

\* One increment has returned and /metrics has read 1; a second increment
\* holds the lock between its load and its store while a third waits for it
C15_Witness ==
    /\ completed = 1
    /\ reads # <<>> /\ reads[Len(reads)].total = 1
    /\ \E h \in Handlers : \E g \in Handlers :
          /\ handler[h].pc = "inc_store" /\ handler[h].value = 1
          /\ REQUESTS_LOCK = h
          /\ handler[g].pc = "inc_acquire"

---------------------------------------------------------------------------
\* Over consecutive pairs of a time-ordered table: |utilization of the later
\* sample - target| * dt, nothing for a later sample without a numeric reading
PairwiseDeviation(sorted) ==
    SeqSum([j \in 1..Len(sorted) |->
              IF j = 1 \/ ~IsNum(sorted[j].currentCPUUtilizationPercent) THEN 0
              ELSE Abs(sorted[j].currentCPUUtilizationPercent.val - TARGET_UTIL)
                     * (sorted[j].timestamp - sorted[j - 1].timestamp)])

\* C16: overshoot_undershoot_area is, over the samples sorted by timestamp,
\* the sum over consecutive pairs of |utilization of the later sample - 60| * dt;
\* a sample without a numeric reading adds nothing but is the previous time
\* of the next pair, and the first sample adds nothing (dt = 0).  The area is
\* 0 whenever every numeric reading equals the target.
C16_AreaIsPairwiseRectangleSum ==
    \A i \in Processed :
        LET hpa == data[i].hpa_log
            m == summary[i]
        IN Ran(i) =>
            /\ Has(m, "overshoot_undershoot_area")
            /\ \E order \in SortedOrders(hpa) :
                  m["overshoot_undershoot_area"]
                    = Num(10 * PairwiseDeviation(SortValues(hpa, order)))
            /\ (\A j \in 1..Len(hpa) : ~Deviates(hpa[j]))
                  => m["overshoot_undershoot_area"] = Num(0)

\* Three samples at increasing times, in time order in the file: the first
\* and the last deviate, the middle one has no numeric reading; the area is
\* the last deviation over the time since the middle sample
C16_Witness ==
    \E i \in Processed :
        LET hpa == data[i].hpa_log IN
        /\ Ran(i) /\ Len(hpa) = 3
        /\ hpa[1].timestamp < hpa[2].timestamp /\ hpa[2].timestamp < hpa[3].timestamp
        /\ Deviates(hpa[1]) /\ Deviates(hpa[3])
        /\ ~IsNum(hpa[2].currentCPUUtilizationPercent)
        /\ summary[i]["overshoot_undershoot_area"]
             = Num(10 * Abs(hpa[3].currentCPUUtilizationPercent.val - TARGET_UTIL)
                      * (hpa[3].timestamp - hpa[2].timestamp))

---------------------------------------------------------------------------
NoMilliSuffix(str) == Strip(str) # <<>> /\ Strip(str)[Len(Strip(str))] # "m"

\* C17: for a CPU string without the milli suffix parse_cpu returns the
\* decimal value times 1000 rounded to the nearest integer ("0.0015" gives 2,
\* "0.0006" gives 1), also for more than three fractional digits.
C17_DecimalRoundedToNearest ==
    \A i \in Processed :
        \A j \in 1..Len(data[i].pod_cpu) :
            LET str == data[i].pod_cpu[j].cpu
                lit == PyFloatLiteral(Strip(str))
            IN NoMilliSuffix(str) /\ lit.ok
               => ParseCpu(variant, str) = Num(RoundDiv(lit.num * 1000, lit.den))

\* What holds instead: the result is the exact value cut down to an integer,
\* or one less when the floating-point product falls just below an integer
C17_DecimalTruncated ==
    \A i \in Processed :
        \A j \in 1..Len(data[i].pod_cpu) :
            LET str == data[i].pod_cpu[j].cpu
                lit == PyFloatLiteral(Strip(str))
                parsed == ParseCpu(variant, str)
            IN NoMilliSuffix(str) /\ lit.ok
               => /\ IsNum(parsed)
                  /\ parsed.val * lit.den <= lit.num * 1000
                  /\ lit.num * 1000 - parsed.val * lit.den <= lit.den

---------------------------------------------------------------------------
(* Scans: tables whose rows carry distinct timestamps of ScanTimes, in any *)
(* file order, with 2 or 4 replicas; one high/start event at t = 0.        *)

ScanTimes == {0, 10, 20, 80, 140}
ScanReplicas == {2, 4}

Orderings(T) ==
    {f \in [1..Cardinality(T) -> T] :
        \A a \in 1..Cardinality(T) : \A b \in 1..Cardinality(T) : a # b => f[a] # f[b]}

ScanTables ==
    UNION {{[j \in 1..Cardinality(T) |-> Sample(f[j], r[f[j]], Num(TARGET_UTIL), NaN)] :
              f \in Orderings(T), r \in [T -> ScanReplicas]} : T \in SUBSET ScanTimes}

ScanRuns ==
    {<<>>} \cup {<<RunData(h, <<PhaseEvent(0, "high", "start")>>, <<>>, <<>>, <<>>)>> :
                   h \in ScanTables}

SpecScan == InitWith(ScanRuns) /\ [][Next]_vars

\* plateauStart is undefined when the scan comes to the pair (j - 1, j): the
\* pair before it, if any, differs in replicas
PlateauStartUndefinedAt(tbl, j) ==
    j = 2 \/ tbl[j - 2].currentReplicas # tbl[j - 1].currentReplicas

\* The scan has not accepted a plateau before row j
NoneAcceptedBefore(tbl, j) ==
    \A a \in 1..(j - 1) : \A b \in (a + 1)..(j - 1) :
        ConstantStretch(tbl, a, b) => StretchSpan(tbl, a, b) < PlateauSeconds

StartsAndConfirmsPlateau(tbl, j) ==
    /\ tbl[j].currentReplicas = tbl[j - 1].currentReplicas
    /\ tbl[j].timestamp - tbl[j - 1].timestamp >= PlateauSeconds
    /\ PlateauStartUndefinedAt(tbl, j)
    /\ NoneAcceptedBefore(tbl, j)

ScanExample ==
    <<Sample(0, 2, Num(TARGET_UTIL), NaN), Sample(10, 2, Num(TARGET_UTIL), NaN),
      Sample(20, 4, Num(TARGET_UTIL), NaN), Sample(80, 4, Num(TARGET_UTIL), NaN),
      Sample(140, 4, Num(TARGET_UTIL), NaN)>>

\* C18: the elapsed time is evaluated on the same adjacent pair that starts
\* a plateau: when rows j-1 and j have equal currentReplicas, are >= 60 s
\* apart and plateauStart was undefined, the plateau is accepted at row j
\* with onset = timestamp of row j-1, no further equal sample being needed.
\* For the phase (0, high, start) and samples (0,2),(10,2),(20,4),(80,4),(140,4)
\* time_to_scale_up_s = 20, time_to_stabilize_s = 20 and max_replicas = 4.
C18_PlateauConfirmedOnStartingPair ==
    \A i \in Processed :
        LET hpa == data[i].hpa_log
            m == summary[i]
        IN Ran(i) =>
            /\ \A j \in 2..Len(hpa) :
                  StartsAndConfirmsPlateau(hpa, j)
                  => /\ Has(m, "time_to_stabilize_s")
                     /\ m["time_to_stabilize_s"]
                          = Num(hpa[j - 1].timestamp - Anchor(data[i]))
            /\ hpa = ScanExample
                  => /\ Has(m, "time_to_scale_up_s") /\ m["time_to_scale_up_s"] = Num(20)
                     /\ Has(m, "time_to_stabilize_s") /\ m["time_to_stabilize_s"] = Num(20)
                     /\ m["max_replicas"] = Num(4)

\* The first four samples of the example: the table ends with the pair that
\* starts the plateau
C18_Witness ==
    \E i \in Processed :
        LET hpa == data[i].hpa_log IN
        /\ Ran(i)
        /\ hpa = SubSeq(ScanExample, 1, 4)
        /\ StartsAndConfirmsPlateau(hpa, 4)
        /\ summary[i]["time_to_stabilize_s"] = Num(20)

---------------------------------------------------------------------------
\* C19: whenever time_to_stabilize_s is present it is non-negative: the
\* accepted plateau onset is never earlier than the anchor, so a constant
\* stretch of >= 60 s before the load increase is not reported.
C19_StabilizeNonNegative ==
    \A i \in Processed :
        Has(summary[i], "time_to_stabilize_s")
        => summary[i]["time_to_stabilize_s"].val >= 0

\* The same for the tables in time order whose first sample is not earlier
\* than the anchor (the phase events in time order too)
C19_NonNegativeFromAnchorOn ==
    \A i \in Processed :
        /\ Has(summary[i], "time_to_stabilize_s")
        /\ TimeOrdered(data[i].hpa_log) /\ TimeOrdered(data[i].phases)
        /\ data[i].hpa_log[1].timestamp >= Anchor(data[i])
        => summary[i]["time_to_stabilize_s"].val >= 0

\* A run in time order whose replica count is constant over >= 60 s from
\* before the only high/start event on
PlateauBeforeLoadIncrease ==
    \E i \in Processed :
        LET hpa == data[i].hpa_log IN
        /\ Ran(i) /\ TimeOrdered(hpa)
        /\ Len(HighStarts(data[i].phases)) = 1
        /\ hpa[1].timestamp < Anchor(data[i])
        /\ 1 \in LongStretchStarts(hpa)

\* C19 on such runs alone
C19_NoPlateauBeforeLoadIncrease ==
    PlateauBeforeLoadIncrease
    => \A i \in Processed :
          Has(summary[i], "time_to_stabilize_s")
          => summary[i]["time_to_stabilize_s"].val >= 0

=============================================================================
